---- MODULE Spec2Model ----
(***************************************************************************)
(* A model of the ray tracer's core: f64 arithmetic (binary floating      *)
(* point of a short significand, with +inf, -inf and NaN), Vec3, Ray,      *)
(* HitRecord, AABB, BVH, Sphere, MovingSphere, World, Material::scatter,   *)
(* Camera::get_ray and the recursive integrator ray_color.                 *)
(***************************************************************************)
EXTENDS Integers, Sequences, FiniteSets, TLC

(***************************************************************************)
(* f64.  A finite value is m * 2^e, held with m odd (or m = 0 and e = 0)   *)
(* so that equal numbers are equal records; +inf and -inf are m = 1 and    *)
(* m = -1 of kind "inf", and NaN is the value of kind "nan".  Every        *)
(* operation rounds its exact result to the nearest value whose            *)
(* significand m has at most Mantissa bits, ties to even, as IEEE 754      *)
(* does with 53 bits.  The exponent is unbounded (no overflow to inf, no   *)
(* subnormals) and -0.0 is identified with 0.0.                            *)
(***************************************************************************)
Mantissa == 8

Abs(i) == IF i < 0 THEN -i ELSE i

Sign(i) == IF i < 0 THEN -1 ELSE IF i > 0 THEN 1 ELSE 0

RECURSIVE Pow2(_)
Pow2(k) == IF k <= 0 THEN 1 ELSE 2 * Pow2(k - 1)

\* the number of bits of i >= 0
RECURSIVE BitLen(_)
BitLen(i) == IF i = 0 THEN 0 ELSE 1 + BitLen(i \div 2)

Finite(m, e) == [k |-> "fin", m |-> m, e |-> e]
Zero == Finite(0, 0)
INFINITY == [k |-> "inf", m |-> 1, e |-> 0]
NEG_INFINITY == [k |-> "inf", m |-> -1, e |-> 0]
NAN == [k |-> "nan", m |-> 0, e |-> 0]

Inf(sign) == IF sign < 0 THEN NEG_INFINITY ELSE INFINITY

\* sign * mag * 2^e with the trailing zero bits of mag moved into e
RECURSIVE Canon(_, _, _)
Canon(sign, mag, e) ==
  IF mag = 0 THEN Zero
  ELSE IF mag % 2 = 0 THEN Canon(sign, mag \div 2, e + 1)
  ELSE Finite(sign * mag, e)

\* q, the bits of the magnitude kept, rounded up when the `rest` dropped is
\* above half, or is half and either something nonzero lies below it
\* (sticky) or q is odd
RoundUp(q, rest, half, sticky) ==
  IF rest > half \/ (rest = half /\ (sticky \/ q % 2 = 1)) THEN q + 1 ELSE q

RoundDrop(sign, mag, e, sticky, drop) ==
  IF drop <= 0 THEN Canon(sign, mag, e)
  ELSE Canon(sign, RoundUp(mag \div Pow2(drop), mag % Pow2(drop), Pow2(drop - 1), sticky),
             e + drop)

\* sign * (mag + s) * 2^e rounded to Mantissa bits, where 0 <= s < 1 and
\* s # 0 exactly if sticky
RoundTo(sign, mag, e, sticky) == RoundDrop(sign, mag, e, sticky, BitLen(mag) - Mantissa)

R(i) == RoundTo(Sign(i), Abs(i), 0, FALSE)
One == R(1)

IsNaN(a) == a.k = "nan"
IsFinite(a) == a.k = "fin"

FNeg(a) == [a EXCEPT !.m = -a.m]

FAbsF(a) == [a EXCEPT !.m = Abs(a.m)]

\* the sum of two finite values lo and hi with lo.e <= hi.e: hi alone when
\* lo is below half of the last place of anything near hi
AddAligned(lo, hi, shifted) == RoundTo(Sign(shifted), Abs(shifted), lo.e, FALSE)

AddFinite(lo, hi) ==
  IF lo.m = 0 THEN hi
  ELSE IF hi.m = 0 THEN lo
  ELSE IF hi.e - lo.e >= 2 * Mantissa + 1 THEN hi
  ELSE AddAligned(lo, hi, lo.m + hi.m * Pow2(hi.e - lo.e))

FAdd(a, b) ==
  IF IsNaN(a) \/ IsNaN(b) THEN NAN
  ELSE IF a.k = "inf" /\ b.k = "inf" THEN (IF a.m = b.m THEN a ELSE NAN)
  ELSE IF a.k = "inf" THEN a
  ELSE IF b.k = "inf" THEN b
  ELSE IF a.e <= b.e THEN AddFinite(a, b)
  ELSE AddFinite(b, a)

FSub(a, b) == FAdd(a, FNeg(b))

FMul(a, b) ==
  IF IsNaN(a) \/ IsNaN(b) THEN NAN
  ELSE IF a.k = "inf" \/ b.k = "inf"
  THEN (IF a.m = 0 \/ b.m = 0 THEN NAN ELSE Inf(Sign(a.m) * Sign(b.m)))
  ELSE RoundTo(Sign(a.m) * Sign(b.m), Abs(a.m) * Abs(b.m), a.e + b.e, FALSE)

\* the quotient of two finite values, b # 0, from an integer quotient of
\* at least Mantissa + 3 bits and the knowledge of whether it is exact
DivFinite(a, b, num) ==
  RoundTo(Sign(a.m) * Sign(b.m), num \div Abs(b.m), a.e - b.e - (2 * Mantissa + 2),
          num % Abs(b.m) # 0)

FDiv(a, b) ==
  IF IsNaN(a) \/ IsNaN(b) THEN NAN
  ELSE IF a.k = "inf" THEN (IF b.k = "inf" THEN NAN
                            ELSE Inf(a.m * (IF b.m < 0 THEN -1 ELSE 1)))
  ELSE IF b.k = "inf" THEN Zero
  ELSE IF b.m = 0 THEN (IF a.m = 0 THEN NAN ELSE Inf(Sign(a.m)))
  ELSE IF a.m = 0 THEN Zero
  ELSE DivFinite(a, b, Abs(a.m) * Pow2(2 * Mantissa + 2))

\* f64::recip: 1.0 / self
FRecip(a) == FDiv(One, a)

\* a decimal literal n/d
Q(n, d) == FDiv(R(n), R(d))

\* the comparison operators: every comparison with NaN is false
FLt(a, b) ==
  /\ ~IsNaN(a) /\ ~IsNaN(b)
  /\ IF a.k = "inf" \/ b.k = "inf"
     THEN a # b /\ (a = NEG_INFINITY \/ b = INFINITY)
     ELSE FSub(a, b).m < 0

FLe(a, b) == ~IsNaN(a) /\ ~IsNaN(b) /\ (a = b \/ FLt(a, b))

FGt(a, b) == FLt(b, a)

\* f64::min and f64::max: when one argument is NaN the other is returned
FMin(a, b) == IF IsNaN(a) THEN b ELSE IF IsNaN(b) THEN a ELSE IF FLt(b, a) THEN b ELSE a

FMax(a, b) == IF IsNaN(a) THEN b ELSE IF IsNaN(b) THEN a ELSE IF FLt(a, b) THEN b ELSE a

\* the largest k with k * k <= i, by bisection on lo..hi
RECURSIVE ISqrtIn(_, _, _)
ISqrtIn(i, lo, hi) ==
  IF lo >= hi THEN lo
  ELSE IF ((lo + hi + 1) \div 2) * ((lo + hi + 1) \div 2) <= i
  THEN ISqrtIn(i, (lo + hi + 1) \div 2, hi)
  ELSE ISqrtIn(i, lo, (lo + hi + 1) \div 2 - 1)

ISqrt(i) == ISqrtIn(i, 0, IF i < 46340 THEN i ELSE 46340)

\* the root of m * 2^e > 0 with e even, from the integer root of
\* m * 2^(2 * Mantissa + 2)
SqrtRound(scaled, root, e) ==
  RoundTo(1, root, (e - (2 * Mantissa + 2)) \div 2, root * root # scaled)

SqrtEven(m, e) ==
  SqrtRound(m * Pow2(2 * Mantissa + 2), ISqrt(m * Pow2(2 * Mantissa + 2)), e)

\* f64::sqrt: NaN for a negative number
FSqrt(a) ==
  IF IsNaN(a) \/ a.m < 0 THEN NAN
  ELSE IF a.k = "inf" THEN INFINITY
  ELSE IF a.m = 0 THEN Zero
  ELSE IF a.e % 2 = 0 THEN SqrtEven(a.m, a.e)
  ELSE SqrtEven(2 * a.m, a.e - 1)

RECURSIVE FPowi(_, _)
FPowi(a, k) == IF k = 0 THEN One ELSE FMul(a, FPowi(a, k - 1))

(***************************************************************************)
(* Vec3 (vector.rs): a triple of f64.                                      *)
(***************************************************************************)
Vec3(x, y, z) == <<x, y, z>>
V(i, j, k) == <<R(i), R(j), R(k)>>
VecZero == V(0, 0, 0)

VNeg(v) == <<FNeg(v[1]), FNeg(v[2]), FNeg(v[3])>>
VAdd(v, w) == <<FAdd(v[1], w[1]), FAdd(v[2], w[2]), FAdd(v[3], w[3])>>
VSub(v, w) == <<FSub(v[1], w[1]), FSub(v[2], w[2]), FSub(v[3], w[3])>>
VScale(v, s) == <<FMul(v[1], s), FMul(v[2], s), FMul(v[3], s)>>
VMul(v, w) == <<FMul(v[1], w[1]), FMul(v[2], w[2]), FMul(v[3], w[3])>>
VDiv(v, s) == <<FDiv(v[1], s), FDiv(v[2], s), FDiv(v[3], s)>>

length_squared(v) ==
  FAdd(FAdd(FMul(v[1], v[1]), FMul(v[2], v[2])), FMul(v[3], v[3]))

length(v) == FSqrt(length_squared(v))

dot_product(v, w) ==
  FAdd(FAdd(FMul(v[1], w[1]), FMul(v[2], w[2])), FMul(v[3], w[3]))

unit_vector(v) == VDiv(v, length(v))

reflect(v, normal) == VSub(v, VScale(VScale(normal, dot_product(v, normal)), R(2)))

\* r_perp + r_parallel
RefractFrom(r_perp, normal) ==
  VAdd(r_perp,
       VScale(normal, FNeg(FSqrt(FAbsF(FSub(One, length_squared(r_perp)))))))

refract(v, normal, etai_over_etat) ==
  RefractFrom(VScale(VAdd(v, VScale(normal, FMin(dot_product(VNeg(v), normal), One))),
                     etai_over_etat),
              normal)

near_zero(v, epsilon) ==
  FLt(FAbsF(v[1]), epsilon) /\ FLt(FAbsF(v[2]), epsilon) /\ FLt(FAbsF(v[3]), epsilon)

BLACK == VecZero
WHITE == V(1, 1, 1)

(***************************************************************************)
(* Option<T>                                                               *)
(***************************************************************************)
None == [some |-> FALSE]
Some(x) == [some |-> TRUE, v |-> x]
IsSome(o) == o.some
OptionOr(a, b) == IF a.some THEN a ELSE b

(***************************************************************************)
(* Ray and HitRecord (ray.rs)                                              *)
(***************************************************************************)
Ray(origin, direction, time) == [origin |-> origin, direction |-> direction, time |-> time]

at(r, t) == VAdd(r.origin, VScale(r.direction, t))

\* Definitions are written so that every intermediate value is computed
\* once and handed on as a parameter: a value the source binds with `let`
\* and uses several times is a parameter of the definition that uses it.

\* the record built at the end of HitRecord::new
HitRecordOf(p, t, outward_normal, front_face, material) ==
  [p |-> p, t |-> t,
   normal |-> IF front_face THEN outward_normal ELSE VNeg(outward_normal),
   front_face |-> front_face, material |-> material]

HitRecordNew(t, r, outward_normal, material) ==
  HitRecordOf(at(r, t), t, outward_normal,
              FLt(dot_product(r.direction, outward_normal), Zero), material)

(***************************************************************************)
(* AABB (bounds.rs)                                                        *)
(***************************************************************************)
AABB(min, max) == [min |-> min, max |-> max]

\* a narrowing that keeps the old bound only when it compares as the tighter
\* one, so that a NaN slab bound replaces it
AABBNarrowTakesNaN(t0, t1, t_min, t_max) ==
  [t_min |-> IF FLe(t0, t_min) THEN t_min ELSE t0,
   t_max |-> IF FLe(t_max, t1) THEN t_max ELSE t1]

\* let t_min = if t0 > t_min { t0 } else { t_min }; and the same for t_max
AABBNarrow(t0, t1, t_min, t_max) ==
  [t_min |-> IF FGt(t0, t_min) THEN t0 ELSE t_min,
   t_max |-> IF FLt(t1, t_max) THEN t1 ELSE t_max]

\* let (t0, t1) = if inv_d < 0. { (t1, t0) } else { (t0, t1) };
AABBSwap(inv_d, t0, t1, t_min, t_max) ==
  IF FLt(inv_d, Zero) THEN AABBNarrow(t1, t0, t_min, t_max)
  ELSE AABBNarrow(t0, t1, t_min, t_max)

\* one axis of the slab test: the narrowed interval
AABBAxis(lo, hi, o, inv_d, t_min, t_max) ==
  AABBSwap(inv_d, FMul(FSub(lo, o), inv_d), FMul(FSub(hi, o), inv_d), t_min, t_max)

\* if t_max <= t_min { return false; }
AABBEmpty(iv) == FLe(iv.t_max, iv.t_min)

RECURSIVE AABBHitFrom(_, _, _, _, _)

AABBAfterAxis(self, r, axis, iv) ==
  IF AABBEmpty(iv) THEN FALSE ELSE AABBHitFrom(self, r, axis + 1, iv.t_min, iv.t_max)

\* the X, Y and Z blocks of AABB::hit, from block `axis` on
AABBHitFrom(self, r, axis, t_min, t_max) ==
  IF axis > 3 THEN TRUE
  ELSE AABBAfterAxis(self, r, axis,
                     AABBAxis(self.min[axis], self.max[axis], r.origin[axis],
                              FRecip(r.direction[axis]), t_min, t_max))

AABBHit(self, r, t_min, t_max) == AABBHitFrom(self, r, 1, t_min, t_max)

\* a union that keeps its own max corner
AABBAddKeepsMax(self, rhs) ==
  AABB(<<FMin(self.min[1], rhs.min[1]), FMin(self.min[2], rhs.min[2]),
         FMin(self.min[3], rhs.min[3])>>,
       self.max)

AABBAdd(self, rhs) ==
  AABB(<<FMin(self.min[1], rhs.min[1]), FMin(self.min[2], rhs.min[2]),
         FMin(self.min[3], rhs.min[3])>>,
       <<FMax(self.max[1], rhs.max[1]), FMax(self.max[2], rhs.max[2]),
         FMax(self.max[3], rhs.max[3])>>)

(***************************************************************************)
(* Sphere and MovingSphere (world.rs).  The two hit functions have the     *)
(* same body but for the center, which is the parameter of SphereHitAt.    *)
(***************************************************************************)
Sphere(center, radius, material) ==
  [kind |-> "Sphere", center |-> center, radius |-> radius, material |-> material]

MovingSphere(time, center, radius, material) ==
  [kind |-> "MovingSphere", time |-> time, center |-> center, radius |-> radius,
   material |-> material]

\* a, half_b and c of the quadratic
Quadratic(oc, direction, radius) ==
  [a |-> length_squared(direction), half_b |-> dot_product(oc, direction),
   c |-> FSub(length_squared(oc), FMul(radius, radius))]

Discriminant(q) == FSub(FMul(q.half_b, q.half_b), FMul(q.a, q.c))

Roots(q, sqrtd) ==
  <<FDiv(FSub(FNeg(q.half_b), sqrtd), q.a), FDiv(FAdd(FNeg(q.half_b), sqrtd), q.a)>>

\* an open interval
InRangeOpen(t, t_min, t_max) == FLt(t_min, t) /\ FLt(t, t_max)

\* t_min <= t && t <= t_max
InRange(t, t_min, t_max) == FLe(t_min, t) /\ FLe(t, t_max)

\* roots.into_iter().find(|&t| t_min <= t && t <= t_max)
FindRoot(roots, t_min, t_max) ==
  IF InRange(roots[1], t_min, t_max) THEN Some(roots[1])
  ELSE IF InRange(roots[2], t_min, t_max) THEN Some(roots[2])
  ELSE None

\* the end of the hit function: the record at the root found, if any
SphereRecord(found, center, radius, material, r) ==
  IF ~found.some THEN None
  ELSE Some(HitRecordNew(found.v, r,
                         VDiv(VSub(at(r, found.v), center), radius), material))

SphereSolve(q, discriminant, center, radius, material, r, t_min, t_max) ==
  IF FLt(discriminant, Zero) THEN None
  ELSE SphereRecord(FindRoot(Roots(q, FSqrt(discriminant)), t_min, t_max),
                    center, radius, material, r)

SphereQuadratic(q, center, radius, material, r, t_min, t_max) ==
  SphereSolve(q, Discriminant(q), center, radius, material, r, t_min, t_max)

SphereHitAt(center, radius, material, r, t_min, t_max) ==
  SphereQuadratic(Quadratic(VSub(r.origin, center), r.direction, radius),
                  center, radius, material, r, t_min, t_max)

SphereHit(self, r, t_min, t_max) ==
  SphereHitAt(self.center, self.radius, self.material, r, t_min, t_max)

\* center - octant, center + octant
OctantBox(center, radius) ==
  AABB(VSub(center, <<radius, radius, radius>>), VAdd(center, <<radius, radius, radius>>))

SphereBounds(self, time) == Some(OctantBox(self.center, self.radius))

MovingSphereCenter(self, time) ==
  VAdd(self.center[1],
       VScale(VSub(self.center[2], self.center[1]),
              FDiv(FSub(time, self.time[1]), FSub(self.time[2], self.time[1]))))

MovingSphereHit(self, r, t_min, t_max) ==
  SphereHitAt(MovingSphereCenter(self, r.time), self.radius, self.material,
              r, t_min, t_max)

\* the box of the first instant alone
MovingSphereBoundsAtStart(self, time) ==
  Some(OctantBox(MovingSphereCenter(self, time[1]), self.radius))

MovingSphereBounds(self, time) ==
  Some(AABBAdd(OctantBox(MovingSphereCenter(self, time[1]), self.radius),
               OctantBox(MovingSphereCenter(self, time[2]), self.radius)))

(***************************************************************************)
(* The Hit trait's dynamic dispatch, BVH (bounds.rs) and World (world.rs)  *)
(***************************************************************************)
World(objects) == [kind |-> "World", objects |-> objects]

BVH(left, right, bounds) ==
  [kind |-> "BVH", left |-> left, right |-> right, bounds |-> bounds]

RECURSIVE Hit(_, _, _, _)

\* let t_max = if let Some(hit) = hit_left { hit.t } else { t_max };
\* a right probe over the whole interval
ShrinkTMaxKept(hit_left, t_max) == t_max

ShrinkTMax(hit_left, t_max) == IF hit_left.some THEN hit_left.v.t ELSE t_max

\* hit_right.or(hit_left), with the two probes made
BVHResult(hit_left, hit_right, t_min, t_max, t_max2) ==
  [hit |-> OptionOr(hit_right, hit_left),
   probes |-> <<[child |-> "left", t_min |-> t_min, t_max |-> t_max, hit |-> hit_left],
                [child |-> "right", t_min |-> t_min, t_max |-> t_max2,
                 hit |-> hit_right]>>]

BVHProbeRight(self, r, t_min, t_max, hit_left, t_max2) ==
  BVHResult(hit_left, Hit(self.right, r, t_min, t_max2), t_min, t_max, t_max2)

BVHProbeLeft(self, r, t_min, t_max, hit_left) ==
  BVHProbeRight(self, r, t_min, t_max, hit_left, ShrinkTMax(hit_left, t_max))

\* BVH::hit with the child probes it makes, in order
BVHHitTrace(self, r, t_min, t_max) ==
  IF ~AABBHit(self.bounds, r, t_min, t_max) THEN [hit |-> None, probes |-> <<>>]
  ELSE BVHProbeLeft(self, r, t_min, t_max, Hit(self.left, r, t_min, t_max))

BVHHit(self, r, t_min, t_max) == BVHHitTrace(self, r, t_min, t_max).hit

Hit(obj, r, t_min, t_max) ==
  CASE obj.kind = "Sphere" -> SphereHit(obj, r, t_min, t_max)
    [] obj.kind = "MovingSphere" -> MovingSphereHit(obj, r, t_min, t_max)
    [] obj.kind = "BVH" -> BVHHit(obj, r, t_min, t_max)

RECURSIVE WorldHitFrom(_, _, _, _, _, _)

\* the body of the loop of World::hit for object i, whose hit is `hit`
WorldHitStep(objects, i, r, t_min, t_max, closest_hit, hit) ==
  IF hit.some THEN WorldHitFrom(objects, i + 1, r, t_min, hit.v.t, hit)
  ELSE WorldHitFrom(objects, i + 1, r, t_min, t_max, closest_hit)

\* the loop of World::hit from object i on, with the running closest_hit and t_max
WorldHitFrom(objects, i, r, t_min, t_max, closest_hit) ==
  IF i > Len(objects) THEN closest_hit
  ELSE WorldHitStep(objects, i, r, t_min, t_max, closest_hit,
                    Hit(objects[i], r, t_min, t_max))

WorldHit(self, r, t_min, t_max) == WorldHitFrom(self.objects, 1, r, t_min, t_max, None)

RECURSIVE WorldProbeFrom(_, _, _, _, _, _, _)

\* a loop body that records the hit but leaves t_max as it was
WorldProbeStepUnshrunk(objects, i, r, t_min, t_max, closest_hit, probes, hit) ==
  IF hit.some
  THEN WorldProbeFrom(objects, i + 1, r, t_min, t_max, hit,
                      Append(probes, [t_min |-> t_min, t_max |-> t_max, hit |-> hit]))
  ELSE WorldProbeFrom(objects, i + 1, r, t_min, t_max, closest_hit,
                      Append(probes, [t_min |-> t_min, t_max |-> t_max, hit |-> hit]))

\* the body of the loop of World::hit for object i, with the probe it made
WorldProbeStep(objects, i, r, t_min, t_max, closest_hit, probes, hit) ==
  IF hit.some
  THEN WorldProbeFrom(objects, i + 1, r, t_min, hit.v.t, hit,
                      Append(probes, [t_min |-> t_min, t_max |-> t_max, hit |-> hit]))
  ELSE WorldProbeFrom(objects, i + 1, r, t_min, t_max, closest_hit,
                      Append(probes, [t_min |-> t_min, t_max |-> t_max, hit |-> hit]))

WorldProbeFrom(objects, i, r, t_min, t_max, closest_hit, probes) ==
  IF i > Len(objects) THEN [hit |-> closest_hit, probes |-> probes]
  ELSE WorldProbeStep(objects, i, r, t_min, t_max, closest_hit, probes,
                      Hit(objects[i], r, t_min, t_max))

\* World::hit with the probe of each object, in list order
WorldHitTrace(self, r, t_min, t_max) ==
  WorldProbeFrom(self.objects, 1, r, t_min, t_max, None, <<>>)

BVHBounds(self, time) == None

Bounds(obj, time) ==
  CASE obj.kind = "Sphere" -> SphereBounds(obj, time)
    [] obj.kind = "MovingSphere" -> MovingSphereBounds(obj, time)
    [] obj.kind = "BVH" -> BVHBounds(obj, time)

RECURSIVE WorldBoundsFrom(_, _, _, _)

\* reduce(|sum, item| sum + item), for an item the filter_map keeps
WorldBoundsStep(objects, i, time, sum, item) ==
  IF ~item.some THEN WorldBoundsFrom(objects, i + 1, time, sum)
  ELSE IF ~sum.some THEN WorldBoundsFrom(objects, i + 1, time, item)
  ELSE WorldBoundsFrom(objects, i + 1, time, Some(AABBAdd(sum.v, item.v)))

\* filter_map(|obj| obj.bounds(time)).reduce(|sum, item| sum + item)
WorldBoundsFrom(objects, i, time, sum) ==
  IF i > Len(objects) THEN sum
  ELSE WorldBoundsStep(objects, i, time, sum, Bounds(objects[i], time))

WorldBounds(self, time) == WorldBoundsFrom(self.objects, 1, time, None)

(***************************************************************************)
(* Material (ray.rs).  The draws a scatter takes from the random generator *)
(* are its argument rnd: rnd.sphere is what random_in_unit_sphere returns  *)
(* and rnd.u is what rng.gen() returns.                                    *)
(***************************************************************************)
Dialectric(index_of_refraction) ==
  [kind |-> "Dialectric", index_of_refraction |-> index_of_refraction]

Lambertian(albedo) == [kind |-> "Lambertian", albedo |-> albedo]

Metal(albedo, fuzz) == [kind |-> "Metal", albedo |-> albedo, fuzz |-> fuzz]

ScatterResult(scattered, attenuation) ==
  [scattered |-> scattered, attenuation |-> attenuation]

\* r0 + (1. - r0) * (1. - cosine).powi(5)
Schlick(r0, cosine) == FAdd(r0, FMul(FSub(One, r0), FPowi(FSub(One, cosine), 5)))

FSquare(x) == FMul(x, x)

reflectance(cosine, ref_idx) ==
  Schlick(FSquare(FDiv(FSub(One, ref_idx), FAdd(One, ref_idx))), cosine)

random_unit_vector(rnd) == unit_vector(rnd.sphere)

\* let direction = if cannot_refract || reflectance > rng.gen() { .. } else { .. }
DialectricDirection(refraction_ratio, unit_direction, cos_theta, rnd, normal) ==
  IF \/ FGt(FMul(refraction_ratio, FSqrt(FSub(One, FMul(cos_theta, cos_theta)))), One)
     \/ FGt(reflectance(cos_theta, refraction_ratio), rnd.u)
  THEN reflect(unit_direction, normal)
  ELSE refract(unit_direction, normal, refraction_ratio)

DialectricFrom(refraction_ratio, unit_direction, rnd, r, hit) ==
  Some(ScatterResult(
         Ray(hit.p,
             DialectricDirection(refraction_ratio, unit_direction,
                                 FMin(dot_product(VNeg(unit_direction), hit.normal), One),
                                 rnd, hit.normal),
             r.time),
         WHITE))

ScatterDialectric(self, rnd, r, hit) ==
  DialectricFrom(IF hit.front_face THEN FRecip(self.index_of_refraction)
                 ELSE self.index_of_refraction,
                 unit_vector(r.direction), rnd, r, hit)

\* Catch degenerate scatter direction
LambertianDirection(scatter_direction, normal) ==
  IF near_zero(scatter_direction, Q(1, 100000000)) THEN normal ELSE scatter_direction

ScatterLambertian(self, rnd, r, hit) ==
  Some(ScatterResult(
         Ray(hit.p, LambertianDirection(VAdd(hit.normal, random_unit_vector(rnd)),
                                        hit.normal), r.time),
         self.albedo))

\* a test that lets a grazing direction through
MetalResultStrict(scattered, attenuation, normal) ==
  IF FLt(dot_product(scattered.direction, normal), Zero) THEN None
  ELSE Some(ScatterResult(scattered, attenuation))

\* if scattered.direction.dot_product(hit.normal) <= 0. { return None; }
MetalResult(scattered, attenuation, normal) ==
  IF FLe(dot_product(scattered.direction, normal), Zero) THEN None
  ELSE Some(ScatterResult(scattered, attenuation))

ScatterMetal(self, rnd, r, hit) ==
  MetalResult(Ray(hit.p,
                  VAdd(reflect(unit_vector(r.direction), hit.normal),
                       VScale(rnd.sphere, self.fuzz)),
                  r.time),
              self.albedo, hit.normal)

Scatter(self, rnd, r, hit) ==
  CASE self.kind = "Dialectric" -> ScatterDialectric(self, rnd, r, hit)
    [] self.kind = "Lambertian" -> ScatterLambertian(self, rnd, r, hit)
    [] self.kind = "Metal" -> ScatterMetal(self, rnd, r, hit)

(***************************************************************************)
(* Camera (cam.rs).  h is tan(theta / 2) of the vertical field of view.    *)
(***************************************************************************)
cross_product(v, w) ==
  <<FSub(FMul(v[2], w[3]), FMul(v[3], w[2])),
    FSub(FMul(v[3], w[1]), FMul(v[1], w[3])),
    FSub(FMul(v[1], w[2]), FMul(v[2], w[1]))>>

CameraOf(origin, horizontal, vertical, u, v, w, focus_distance, lens_radius, time) ==
  [origin |-> origin,
   lower_left_corner |->
     VSub(VSub(VSub(origin, VDiv(horizontal, R(2))), VDiv(vertical, R(2))),
          VScale(w, focus_distance)),
   horizontal |-> horizontal, vertical |-> vertical, u |-> u, v |-> v, w |-> w,
   lens_radius |-> lens_radius, time |-> time]

CameraUVW(look_from, u, v, w, viewport_width, viewport_height, aperture, focus_distance, time) ==
  CameraOf(look_from, VScale(VScale(u, viewport_width), focus_distance),
           VScale(VScale(v, viewport_height), focus_distance), u, v, w,
           focus_distance, FDiv(aperture, R(2)), time)

CameraUW(look_from, u, w, viewport_height, aspect_ratio, aperture, focus_distance, time) ==
  CameraUVW(look_from, u, cross_product(w, u), w,
            FMul(aspect_ratio, viewport_height), viewport_height, aperture,
            focus_distance, time)

CameraW(look_from, view_up, w, h, aspect_ratio, aperture, focus_distance, time) ==
  CameraUW(look_from, unit_vector(cross_product(view_up, w)), w, FMul(R(2), h),
           aspect_ratio, aperture, focus_distance, time)

CameraNew(look_from, look_at, view_up, h, aspect_ratio, aperture, focus_distance, time) ==
  CameraW(look_from, view_up, unit_vector(VSub(look_from, look_at)), h, aspect_ratio,
          aperture, focus_distance, time)

\* rng.gen_range(low..high) of the rand crate: it panics ("cannot sample
\* empty range") unless low < high, and else returns a value of [low, high);
\* pick is the value drawn
GenRange(low, high, pick) ==
  IF ~FLt(low, high) THEN [panic |-> TRUE] ELSE [panic |-> FALSE, v |-> pick]

GetRayResult(origin, direction, time) ==
  IF time.panic THEN [panic |-> TRUE]
  ELSE [panic |-> FALSE, v |-> Ray(origin, direction, time.v)]

GetRayOffset(self, offset, s, t, time) ==
  GetRayResult(VAdd(self.origin, offset),
               VSub(VSub(VAdd(VAdd(self.lower_left_corner, VScale(self.horizontal, s)),
                              VScale(self.vertical, t)),
                         self.origin),
                    offset),
               time)

GetRayLens(self, rd, s, t, time) ==
  GetRayOffset(self, VAdd(VScale(self.u, rd[1]), VScale(self.v, rd[2])), s, t, time)

\* rnd.disk is what random_in_unit_disk returns, rnd.time what gen_range draws
CameraGetRay(self, rnd, s, t) ==
  GetRayLens(self, VScale(rnd.disk, self.lens_radius), s, t,
             GenRange(self.time[1], self.time[2], rnd.time))

(***************************************************************************)
(* The background of ray_color (main.rs)                                   *)
(***************************************************************************)
Gradient(t) ==
  VAdd(VScale(WHITE, FSub(One, t)), VScale(<<Q(1, 2), Q(7, 10), One>>, t))

Background(r) == Gradient(FMul(Q(1, 2), FAdd(unit_vector(r.direction)[2], One)))

(***************************************************************************)
(* State.  pc is the position of the operation under way; args are the     *)
(* arguments of the outermost call and ret is what it returned.  The rest  *)
(* is the run of ray_color: its call stack (one frame per active call: the *)
(* ray, the depth, and the attenuation once the material has scattered),   *)
(* the value being returned, and a history of the run (the depth of every  *)
(* call made, the numbers of world intersection tests and of scatter       *)
(* calls, the attenuations in order, and how and where the path ended).    *)
(***************************************************************************)
VARIABLES pc, args, ret, stack, retval, calls, nHit, nScatter, atts, terminal

vars == <<pc, args, ret, stack, retval, calls, nHit, nScatter, atts, terminal>>

rcVars == <<stack, retval, calls, nHit, nScatter, atts, terminal>>

RcIdle ==
  /\ stack = <<>>
  /\ retval = BLACK
  /\ calls = <<>>
  /\ nHit = 0
  /\ nScatter = 0
  /\ atts = <<>>
  /\ terminal = None

(***************************************************************************)
(* Bounds and input sets of the integrator                                 *)
(***************************************************************************)
MaxDepth == 3

Grey == <<Q(1, 2), Q(1, 2), Q(1, 2)>>
Gold == <<Q(7, 10), Q(3, 5), Q(1, 2)>>

\* two facing mirrors; the scene of the end-to-end scenario; a glass ball
\* beside a diffuse one; a fuzzy metal ball; a mirror facing a diffuse ball
ColorWorlds ==
  { World(<<Sphere(V(-3, 0, 0), R(1), Metal(Gold, Zero)),
            Sphere(V(3, 0, 0), R(1), Metal(Grey, Zero))>>),
    World(<<Sphere(V(0, 0, -1), Q(1, 2), Lambertian(Grey))>>),
    World(<<Sphere(V(0, 0, 0), R(1), Dialectric(Q(3, 2))),
            Sphere(V(4, 0, 0), R(1), Lambertian(Gold))>>),
    World(<<Sphere(V(4, 0, 0), R(1), Metal(Gold, Q(1, 2)))>>),
    World(<<Sphere(V(3, 0, 0), R(1), Metal(Gold, Zero)),
            Sphere(V(-3, 0, 0), R(1), Lambertian(Grey))>>) }

ColorRays ==
  { Ray(V(0, 0, 0), V(1, 0, 0), Zero), Ray(V(0, 0, 0), V(-1, 0, 0), Zero),
    Ray(V(0, 0, 0), V(0, 1, 0), Zero), Ray(V(0, 0, 0), V(0, 0, -1), Zero),
    Ray(V(0, 0, 0), V(0, -3, -4), Zero),
    Ray(V(7, 1, 0), V(-1, 0, 0), Zero),
    Ray(<<R(7), Q(4, 5), Zero>>, V(-1, 0, 0), Zero) }

\* what random_in_unit_sphere may return (its rejection loop ends with a
\* point of squared length < 1) and what rng.gen() may return (in [0, 1))
RandSphere ==
  { <<Q(1, 2), Zero, Zero>>, <<Q(-1, 2), Zero, Zero>>, <<Zero, Q(1, 2), Zero>>,
    <<Zero, Zero, Q(-1, 2)>> }

RandU == {Zero, Q(1, 2)}

Rnd == [sphere : RandSphere, u : RandU]

(***************************************************************************)
(* ray_color (main.rs), one step per part of a call                        *)
(***************************************************************************)
Top == stack[Len(stack)]

TopHit == WorldHit(args.world, Top.r, Q(1, 1000), INFINITY)

Frame(r, depth) == [r |-> r, depth |-> depth, attenuation |-> None]

InitColor ==
  /\ pc = "call"
  /\ args \in [world : ColorWorlds, r : ColorRays, depth : -1 .. MaxDepth]
  /\ ret = None
  /\ stack = <<Frame(args.r, args.depth)>>
  /\ retval = BLACK
  /\ calls = <<args.depth>>
  /\ nHit = 0
  /\ nScatter = 0
  /\ atts = <<>>
  /\ terminal = None

\* a guard that lets a call of depth 0 through
DepthExhaustedBelowZero(depth) == depth < 0

\* if depth <= 0
DepthExhausted(depth) == depth <= 0

\* if depth <= 0 { return BLACK; }
RcDepthExhausted ==
  /\ pc = "call"
  /\ DepthExhausted(Top.depth)
  /\ pc' = "ret"
  /\ retval' = BLACK
  /\ terminal' = Some([kind |-> "depth", r |-> Top.r])
  /\ UNCHANGED <<args, ret, stack, calls, nHit, nScatter, atts>>

\* world.hit returns None: the background gradient
RcMiss ==
  /\ pc = "call"
  /\ ~DepthExhausted(Top.depth)
  /\ ~TopHit.some
  /\ pc' = "ret"
  /\ nHit' = nHit + 1
  /\ retval' = Background(Top.r)
  /\ terminal' = Some([kind |-> "miss", r |-> Top.r])
  /\ UNCHANGED <<args, ret, stack, calls, nScatter, atts>>

\* a hit whose material returns no scatter: return BLACK
RcAbsorbedOn(hit) ==
  /\ hit.some
  /\ \E rnd \in Rnd : ~Scatter(hit.v.material, rnd, Top.r, hit.v).some
  /\ pc' = "ret"
  /\ nHit' = nHit + 1
  /\ nScatter' = nScatter + 1
  /\ retval' = BLACK
  /\ terminal' = Some([kind |-> "absorbed", r |-> Top.r])
  /\ UNCHANGED <<args, ret, stack, calls, atts>>

RcAbsorbed ==
  /\ pc = "call"
  /\ ~DepthExhausted(Top.depth)
  /\ RcAbsorbedOn(TopHit)

RecurseDepth(depth) == depth - 1

\* the recursive call ray_color(scattered, depth - 1), its result awaited
\* by the caller to be multiplied by the attenuation
RcRecurse(sc) ==
  /\ sc.some
  /\ stack' = Append([stack EXCEPT ![Len(stack)].attenuation = Some(sc.v.attenuation)],
                     Frame(sc.v.scattered, RecurseDepth(Top.depth)))
  /\ calls' = Append(calls, RecurseDepth(Top.depth))
  /\ atts' = Append(atts, sc.v.attenuation)
  /\ nHit' = nHit + 1
  /\ nScatter' = nScatter + 1
  /\ UNCHANGED <<pc, args, ret, retval, terminal>>

RcScatterOn(hit) ==
  /\ hit.some
  /\ \E rnd \in Rnd : RcRecurse(Scatter(hit.v.material, rnd, Top.r, hit.v))

\* a hit whose material scatters
RcScatter ==
  /\ pc = "call"
  /\ ~DepthExhausted(Top.depth)
  /\ RcScatterOn(TopHit)

\* a return that drops the attenuation of its own bounce
ReturnValueUnattenuated(attenuation, value) == value

\* the value a caller returns: attenuation * (what its recursive call returned)
ReturnValue(attenuation, value) == VMul(attenuation, value)

\* a recursive call returns to its caller, which returns in turn
RcReturn ==
  /\ pc = "ret"
  /\ Len(stack) > 1
  /\ retval' = ReturnValue(stack[Len(stack) - 1].attenuation.v, retval)
  /\ stack' = SubSeq(stack, 1, Len(stack) - 1)
  /\ UNCHANGED <<pc, args, ret, calls, nHit, nScatter, atts, terminal>>

\* the outermost call returns
RcDone ==
  /\ pc = "ret"
  /\ Len(stack) = 1
  /\ pc' = "done"
  /\ ret' = Some(retval)
  /\ stack' = <<>>
  /\ UNCHANGED <<args, retval, calls, nHit, nScatter, atts, terminal>>

NextColor ==
  \/ RcDepthExhausted
  \/ RcMiss
  \/ RcAbsorbed
  \/ RcScatter
  \/ RcReturn
  \/ RcDone

SpecColor == InitColor /\ [][NextColor]_vars

(***************************************************************************)
(* The hit functions, called on drawn arguments.  A state after a call     *)
(* holds the arguments and what the call returned (for BVH::hit, with the  *)
(* probes of the children it made).                                        *)
(***************************************************************************)
InitCall ==
  /\ pc = "idle"
  /\ args = None
  /\ ret = None
  /\ RcIdle

Red == <<Q(4, 5), Q(1, 5), Q(1, 5)>>

SA == Sphere(V(0, 0, 0), R(1), Lambertian(Grey))
SB == Sphere(V(3, 0, 0), R(1), Metal(Gold, Zero))
SC == Sphere(V(0, 3, 0), R(1), Dialectric(Q(3, 2)))
SD == Sphere(V(1, 0, 0), R(2), Lambertian(Red))

\* spheres of radius 0 (a point), 1 and 2
HitSpheres ==
  { Sphere(c, rad, Lambertian(Grey)) : c \in {V(0, 0, 0), V(3, 0, 0)},
                                       rad \in {R(0), R(1), R(2)} }

HitMovingSpheres ==
  { MovingSphere(<<Zero, One>>, <<V(0, 0, 0), V(2, 0, 0)>>, R(1), Lambertian(Grey)),
    MovingSphere(<<Zero, R(2)>>, <<V(0, 0, 0), V(0, 2, 0)>>, R(1), Lambertian(Grey)),
    MovingSphere(<<One, R(2)>>, <<V(3, 0, 0), V(3, 0, 0)>>, R(2), Lambertian(Grey)) }

HitRayGeometry ==
  { <<V(-5, 0, 0), V(1, 0, 0)>>, <<V(-5, 0, 0), V(2, 0, 0)>>,
    <<V(-5, 1, 0), V(1, 0, 0)>>, <<V(0, 0, 0), V(1, 0, 0)>>,
    <<<<R(-5), Q(4, 5), Zero>>, V(1, 0, 0)>>, <<V(0, -5, 0), V(0, 1, 0)>>,
    <<V(-5, 0, 0), V(1, 1, 0)>>, <<V(-5, 0, 0), V(0, 0, 0)>>,
    <<V(-5, 0, 0), V(-1, 0, 0)>>, <<<<R(-5), Zero, Q(1, 2)>>, V(1, 0, 0)>>,
    <<V(9, 0, 0), V(-1, 0, 0)>> }

HitRays == { Ray(g[1], g[2], Zero) : g \in HitRayGeometry }

HitRayTimes == {Zero, Q(1, 2), One}

HitTMin == {Zero, Q(1, 1000), R(4), R(5)}

HitTMax == {R(4), R(5), R(6), R(8), INFINITY}

HitWorlds ==
  { World(<<>>), World(<<SA>>), World(<<SA, SB>>), World(<<SB, SA>>),
    World(<<SA, SD, SC>>), World(<<SD, SB, SA>>), World(<<SB, SA, SD>>) }

RECURSIVE Leaves(_)
Leaves(obj) == IF obj.kind = "BVH" THEN Leaves(obj.left) \o Leaves(obj.right) ELSE <<obj>>

\* a BVH node whose cached bounds are the union of the bounds of the
\* primitives beneath it
MakeBVH(left, right) ==
  BVH(left, right, WorldBounds(World(Leaves(left) \o Leaves(right)), <<Zero, Zero>>).v)

HitTrees ==
  { MakeBVH(SA, SB), MakeBVH(SB, SA), MakeBVH(SA, SD), MakeBVH(MakeBVH(SA, SB), SC),
    MakeBVH(SC, MakeBVH(SD, SB)), MakeBVH(MakeBVH(SA, SD), MakeBVH(SB, SC)) }

Called(name, obj, r, t_min, t_max, result) ==
  /\ pc' = name
  /\ args' = [obj |-> obj, r |-> r, t_min |-> t_min, t_max |-> t_max]
  /\ ret' = result
  /\ UNCHANGED rcVars

CallSphereHit ==
  /\ pc = "idle"
  /\ \E obj \in HitSpheres, r \in HitRays, t_min \in HitTMin, t_max \in HitTMax :
    Called("Sphere::hit", obj, r, t_min, t_max, SphereHit(obj, r, t_min, t_max))

CallMovingSphereHit ==
  /\ pc = "idle"
  /\ \E obj \in HitMovingSpheres, g \in HitRayGeometry, time \in HitRayTimes,
     t_min \in HitTMin, t_max \in HitTMax :
    Called("MovingSphere::hit", obj, Ray(g[1], g[2], time), t_min, t_max,
           MovingSphereHit(obj, Ray(g[1], g[2], time), t_min, t_max))

CallWorldHit ==
  /\ pc = "idle"
  /\ \E obj \in HitWorlds, r \in HitRays, t_min \in HitTMin, t_max \in HitTMax :
    Called("World::hit", obj, r, t_min, t_max, WorldHitTrace(obj, r, t_min, t_max))

CallBVHHit ==
  /\ pc = "idle"
  /\ \E obj \in HitTrees, r \in HitRays, t_min \in HitTMin, t_max \in HitTMax :
    Called("BVH::hit", obj, r, t_min, t_max, BVHHitTrace(obj, r, t_min, t_max))

NextHit ==
  \/ CallSphereHit
  \/ CallMovingSphereHit
  \/ CallWorldHit
  \/ CallBVHHit

SpecHit == InitCall /\ [][NextHit]_vars

(***************************************************************************)
(* The + of AABB and the bounds functions, called on drawn arguments.      *)
(***************************************************************************)
BoxCorners ==
  { V(0, 0, 0), V(1, 2, 0), V(2, 1, 3), <<R(-1), INFINITY, Q(1, 2)>> }

Boxes == { AABB(min, max) : min \in BoxCorners, max \in BoxCorners }

CallAdd ==
  /\ pc = "idle"
  /\ \E a \in Boxes, b \in Boxes, c \in Boxes :
       /\ pc' = "AABB::add"
       /\ args' = [a |-> a, b |-> b, c |-> c]
       /\ ret' = [ab |-> AABBAdd(a, b), ba |-> AABBAdd(b, a),
                  ab_c |-> AABBAdd(AABBAdd(a, b), c),
                  a_bc |-> AABBAdd(a, AABBAdd(b, c))]
       /\ UNCHANGED rcVars

SM == MovingSphere(<<Zero, One>>, <<V(0, 0, 0), V(2, -3, 0)>>, Q(1, 2), Lambertian(Grey))

BoundsObjects == {SA, SB, SC, SM, MakeBVH(SA, SB)}

\* the lists of at most MaxObjects different objects
MaxObjects == 3

BoundsLists ==
  UNION { { objects \in [1..n -> BoundsObjects] :
              \A i, j \in 1..n : i # j => objects[i] # objects[j] } : n \in 0..MaxObjects }

CallWorldBounds ==
  /\ pc = "idle"
  /\ \E objects \in BoundsLists, time0 \in {Zero, Q(1, 3)}, time1 \in {One, R(2)} :
       /\ pc' = "World::bounds"
       /\ args' = [objects |-> objects, time |-> <<time0, time1>>]
       /\ ret' = WorldBounds(World(objects), <<time0, time1>>)
       /\ UNCHANGED rcVars

BoundsMovingSpheres ==
  { MovingSphere(time, <<c0, c1>>, radius, Lambertian(Grey)) :
      time \in {<<Zero, One>>, <<One, R(3)>>},
      c0 \in {V(0, 0, 0), <<Q(1, 5), R(-2), Q(1, 3)>>},
      c1 \in {V(2, 0, 0), V(-4, 3, -4)},
      radius \in {Zero, Q(1, 2), R(2)} }

BoundsInstants == {R(-1), Zero, Q(1, 3), One, R(2), R(3)}

\* bounds((a, b)) of a moving sphere, with its center at an instant t of [a, b]
\* and at the two ends of its own motion
CallMovingSphereBounds ==
  /\ pc = "idle"
  /\ \E obj \in BoundsMovingSpheres, a \in BoundsInstants, b \in BoundsInstants,
        t \in BoundsInstants :
       /\ FLe(a, t)
       /\ FLe(t, b)
       /\ pc' = "MovingSphere::bounds"
       /\ args' = [obj |-> obj, time |-> <<a, b>>, t |-> t]
       /\ ret' = [bounds |-> MovingSphereBounds(obj, <<a, b>>),
                  center |-> MovingSphereCenter(obj, t),
                  center0 |-> MovingSphereCenter(obj, obj.time[1]),
                  center1 |-> MovingSphereCenter(obj, obj.time[2])]
       /\ UNCHANGED rcVars

NextBox ==
  \/ CallAdd
  \/ CallWorldBounds
  \/ CallMovingSphereBounds

SpecBox == InitCall /\ [][NextBox]_vars

(***************************************************************************)
(* Material::scatter, called on the records the hit functions return.      *)
(***************************************************************************)
ScatterMaterials ==
  { Dialectric(Q(3, 2)), Lambertian(Grey), Metal(Gold, Zero), Metal(Gold, Q(1, 2)),
    Metal(Grey, One) }

ScatterSpheres == { SA, Sphere(V(0, 0, 0), Zero, Lambertian(Grey)) }

ScatterRays == { Ray(g[1], g[2], time) : g \in HitRayGeometry, time \in {Zero, Q(1, 2)} }

CallScatter ==
  /\ pc = "idle"
  /\ \E self \in ScatterMaterials, rnd \in Rnd, s \in ScatterSpheres, r \in ScatterRays :
       /\ SphereHit(s, r, Q(1, 1000), INFINITY).some
       /\ pc' = "Material::scatter"
       /\ args' = [self |-> self, rnd |-> rnd, r |-> r,
                   hit |-> SphereHit(s, r, Q(1, 1000), INFINITY).v]
       /\ ret' = Scatter(self, rnd, r, SphereHit(s, r, Q(1, 1000), INFINITY).v)
       /\ UNCHANGED rcVars

NextScatter == CallScatter

SpecScatter == InitCall /\ [][NextScatter]_vars

(***************************************************************************)
(* Camera::get_ray, called on drawn cameras.                               *)
(***************************************************************************)
Cameras ==
  { CameraNew(V(0, 0, 0), V(0, 0, -1), V(0, 1, 0), One, aspect_ratio, aperture, One,
              time) :
      aspect_ratio \in {One, R(2)}, aperture \in {Zero, R(2)},
      time \in {<<Zero, Zero>>, <<Zero, One>>, <<One, One>>, <<One, R(3)>>} }

\* what random_in_unit_disk may return: a point of the unit disk of the
\* plane z = 0
RandDisk == { V(0, 0, 0), <<Q(1, 2), Zero, Zero>>, <<Zero, Q(-1, 2), Zero>> }

\* the fractions of the range at which gen_range picks its value
RandFraction == {Zero, Q(1, 2), Q(3, 4)}

Screen == {Zero, Q(1, 2), One}

TimePick(self, fraction) ==
  FAdd(self.time[1], FMul(FSub(self.time[2], self.time[1]), fraction))

GotRay(self, rnd, s, t, result) ==
  /\ pc' = (IF result.panic THEN "panicked" ELSE "Camera::get_ray")
  /\ args' = [self |-> self, rnd |-> rnd, s |-> s, t |-> t]
  /\ ret' = result
  /\ UNCHANGED rcVars

CallGetRay ==
  /\ pc = "idle"
  /\ \E self \in Cameras, disk \in RandDisk, fraction \in RandFraction,
        s \in Screen, t \in Screen :
       GotRay(self, [disk |-> disk, time |-> TimePick(self, fraction)], s, t,
              CameraGetRay(self, [disk |-> disk, time |-> TimePick(self, fraction)], s, t))

NextCam == CallGetRay

SpecCam == InitCall /\ [][NextCam]_vars

(***************************************************************************)
(* AABB::hit called on its own: boxes, rays along and across the axes,     *)
(* origins outside, on the faces of and inside the boxes.                  *)
(***************************************************************************)
SlabBoxes == { AABB(V(-1, -1, -1), V(1, 1, 1)), AABB(V(0, -1, 0), V(2, 2, 1)) }

SlabOrigins ==
  { <<R(x), R(y), R(z)>> : x \in {-2, -1, 0, 1, 2}, y \in {-1, 0, 3}, z \in {0, 1} }

SlabDirections == { <<R(x), R(y), R(z)>> : x \in {-1, 0, 1}, y \in {-1, 0, 2}, z \in {0, 1} }

SlabTMin == {Zero, Q(1, 1000), One}

SlabTMax == {One, R(3), INFINITY}

CallAABBHit ==
  /\ pc = "idle"
  /\ \E self \in SlabBoxes, origin \in SlabOrigins, direction \in SlabDirections,
        t_min \in SlabTMin, t_max \in SlabTMax :
       /\ pc' = "AABB::hit"
       /\ args' = [self |-> self, r |-> Ray(origin, direction, Zero),
                   t_min |-> t_min, t_max |-> t_max]
       /\ ret' = AABBHit(self, Ray(origin, direction, Zero), t_min, t_max)
       /\ UNCHANGED rcVars

NextSlab == CallAABBHit

SpecSlab == InitCall /\ [][NextSlab]_vars

(***************************************************************************)
(* Claims about ray_color.                                                 *)
(***************************************************************************)
DepthBudget == IF args.depth > 0 THEN args.depth ELSE 0

\* the steps a run can still take: two for each level of recursion left, one
\* for each frame to return from, one to hand the result over
C1_Rank ==
  CASE pc = "call" -> 2 * (IF Top.depth > 0 THEN Top.depth ELSE 0) + Len(stack) + 2
    [] pc = "ret" -> Len(stack) + 1
    [] OTHER -> 0

C1_Bounded ==
  /\ nHit <= DepthBudget
  /\ nScatter <= DepthBudget
  /\ Len(calls) >= 1
  /\ \A i \in 1..Len(calls) : calls[i] = args.depth - (i - 1)
  /\ nHit <= Cardinality({i \in 1..Len(calls) : calls[i] > 0})
  /\ pc \in {"call", "ret", "done"}
  /\ pc # "done" => Len(stack) >= 1
  /\ C1_Rank <= 2 * DepthBudget + 3

\* C1: ray_color started with depth d terminates (every step lowers a rank
\* that starts at no more than 2 * max(d, 0) + 3 and the run is never stuck
\* before it is done) after at most max(d, 0) world intersections and at most
\* max(d, 0) scatter calls; every recursive call carries a depth exactly one
\* less than its caller, and a call with depth <= 0 returns without
\* intersecting the world.
C1_DepthBounded == [](C1_Bounded) /\ [][C1_Rank' < C1_Rank]_vars

\* C1: a run that stopped on the depth guard after spending its whole budget
\* of at least two on intersections and scatters.
C1_Witness ==
  /\ pc = "done"
  /\ args.depth >= 2
  /\ nHit = args.depth
  /\ nScatter = args.depth
  /\ terminal.v.kind = "depth"

SkyBlue == <<Q(1, 2), Q(7, 10), One>>

\* the blend (1 - t) * a + t * b
Lerp(a, b, t) == VAdd(VScale(a, FSub(One, t)), VScale(b, t))

\* the colour of a path's last event: the gradient of the missing ray's own
\* direction, black for absorption and for the depth guard
TerminalColor(last) ==
  IF last.kind = "miss"
  THEN Lerp(WHITE, SkyBlue, FMul(Q(1, 2), FAdd(unit_vector(last.r.direction)[2], One)))
  ELSE BLACK

RECURSIVE PathProduct(_, _, _)
PathProduct(attenuations, i, last) ==
  IF i > Len(attenuations)
  THEN last
  ELSE VMul(attenuations[i], PathProduct(attenuations, i + 1, last))

\* C2: the colour ray_color returns is the component-wise product of the
\* attenuations of the bounces on the path times the colour of the path's
\* last event (gradient for a miss, black for absorption or the depth
\* guard); with depth 1 a ray that hits returns black and a ray that misses
\* returns the gradient of its own direction.
C2_PathProduct ==
  pc = "done" =>
    /\ ret.v = PathProduct(atts, 1, TerminalColor(terminal.v))
    /\ (args.depth = 1 /\ nHit = 1 /\ terminal.v.kind # "miss" => ret.v = BLACK)
    /\ (args.depth = 1 /\ terminal.v.kind = "miss" /\ nScatter = 0
          => ret.v = TerminalColor([kind |-> "miss", r |-> args.r]))

\* C2: a path of two bounces that ends in a miss and returns a colour that
\* is not black.
C2_Witness ==
  /\ pc = "done"
  /\ Len(atts) >= 2
  /\ terminal.v.kind = "miss"
  /\ ret.v # BLACK
  /\ atts[1] # WHITE

(***************************************************************************)
(* Claims about the hit functions.                                         *)
(***************************************************************************)
HitCalled == pc \in {"Sphere::hit", "MovingSphere::hit", "World::hit", "BVH::hit"}

Returned == IF pc \in {"BVH::hit", "World::hit"} THEN ret.hit ELSE ret

NonZero(v) == v # VecZero

Primitives(obj) == IF obj.kind = "World" THEN obj.objects ELSE Leaves(obj)

\* the primitive a record was made on (the materials of a scene are distinct)
HitPrimitive(obj, hit) ==
  CHOOSE s \in {Primitives(obj)[i] : i \in 1..Len(Primitives(obj))} :
    s.material = hit.material

CenterAt(s, time) == IF s.kind = "Sphere" THEN s.center ELSE MovingSphereCenter(s, time)

\* (p - center) / radius
OutwardNormal(s, r, hit) == VDiv(VSub(hit.p, CenterAt(s, r.time)), s.radius)

NormalOpposes(r, hit, outward) ==
  /\ FLe(dot_product(hit.normal, r.direction), Zero)
  /\ hit.front_face <=> FLt(dot_product(outward, r.direction), Zero)
  /\ hit.front_face => hit.normal = outward
  /\ ~hit.front_face => hit.normal = VNeg(outward)

\* C3: for a BVH whose nodes cache the union of the bounds beneath them,
\* BVH::hit reports a hit exactly when World::hit over the same spheres does,
\* at the same t and the same point, for any ray of non-zero direction and
\* any interval.
C3_BVHMatchesLinearScan ==
  (pc = "BVH::hit" /\ NonZero(args.r.direction)) =>
    /\ ret.hit.some <=>
         WorldHit(World(Leaves(args.obj)), args.r, args.t_min, args.t_max).some
    /\ ret.hit.some =>
         /\ ret.hit.v.t =
              WorldHit(World(Leaves(args.obj)), args.r, args.t_min, args.t_max).v.t
         /\ ret.hit.v.p =
              WorldHit(World(Leaves(args.obj)), args.r, args.t_min, args.t_max).v.p

\* C4: every record returned by Sphere::hit, MovingSphere::hit, World::hit or
\* BVH::hit has dot(normal, ray.direction) <= 0, and front_face is true
\* exactly when the outward normal at p has a negative dot product with the
\* direction, normal being the outward normal then and its negation
\* otherwise.
C4_NormalOpposesRay ==
  (HitCalled /\ Returned.some) =>
    NormalOpposes(args.r, Returned.v,
                  OutwardNormal(HitPrimitive(args.obj, Returned.v), args.r, Returned.v))

C7_Discriminant(oc, direction, radius) ==
  FSub(FMul(dot_product(oc, direction), dot_product(oc, direction)),
       FMul(length_squared(direction),
            FSub(length_squared(oc), FMul(radius, radius))))

C7_Root(oc, direction, sqrtd, sign) ==
  FDiv(FAdd(FNeg(dot_product(oc, direction)), FMul(R(sign), sqrtd)),
       length_squared(direction))

C7_Within(t, t_min, t_max) == FLe(t_min, t) /\ FLe(t, t_max)

C7_Select(smaller, larger, t_min, t_max) ==
  IF C7_Within(smaller, t_min, t_max) THEN Some(smaller)
  ELSE IF C7_Within(larger, t_min, t_max) THEN Some(larger)
  ELSE None

C7_Expected(oc, direction, radius, t_min, t_max) ==
  IF FLt(C7_Discriminant(oc, direction, radius), Zero) THEN None
  ELSE C7_Select(C7_Root(oc, direction, FSqrt(C7_Discriminant(oc, direction, radius)), -1),
                 C7_Root(oc, direction, FSqrt(C7_Discriminant(oc, direction, radius)), 1),
                 t_min, t_max)

C7_Agrees(hit, expected, r, t_min, t_max) ==
  /\ hit.some <=> expected.some
  /\ hit.some =>
       /\ hit.v.t = expected.v
       /\ FLe(t_min, hit.v.t)
       /\ FLe(hit.v.t, t_max)
       /\ hit.v.p = at(r, hit.v.t)

\* C7: for a sphere of positive radius (its center taken at the ray's time
\* for a moving sphere) and a ray of non-zero direction, the hit function
\* returns None when the discriminant is negative, otherwise a hit at the
\* smaller root if it lies in the closed interval [t_min, t_max], else at the
\* larger root if that lies in it, else None; a returned t is in the interval
\* and p = origin + t * direction.
C7_RootSelection ==
  (pc \in {"Sphere::hit", "MovingSphere::hit"} /\ FLt(Zero, args.obj.radius)
     /\ NonZero(args.r.direction)) =>
    C7_Agrees(ret,
              C7_Expected(VSub(args.r.origin, CenterAt(args.obj, args.r.time)),
                          args.r.direction, args.obj.radius, args.t_min, args.t_max),
              args.r, args.t_min, args.t_max)

\* C7: a hit at the larger root because the smaller one is below t_min, with
\* t equal to t_max, on a moving sphere that has moved.
C7_Witness ==
  /\ pc = "MovingSphere::hit"
  /\ args.r.time # Zero
  /\ ret.some
  /\ ret.v.t = args.t_max
  /\ ~ret.v.front_face
  /\ FLt(Zero, args.obj.radius)

ChildHit(child, r, t_min, t_max) == Hit(child, r, t_min, t_max)

C10_Probes(self, r, t_min, t_max, trace) ==
  IF ~AABBHit(self.bounds, r, t_min, t_max)
  THEN trace.probes = <<>> /\ ~trace.hit.some
  ELSE /\ Len(trace.probes) = 2
       /\ trace.probes[1] = [child |-> "left", t_min |-> t_min, t_max |-> t_max,
                             hit |-> ChildHit(self.left, r, t_min, t_max)]
       /\ trace.probes[2].child = "right"
       /\ trace.probes[2].t_min = t_min
       /\ trace.probes[2].t_max =
            (IF trace.probes[1].hit.some THEN trace.probes[1].hit.v.t ELSE t_max)
       /\ trace.probes[2].hit = ChildHit(self.right, r, t_min, trace.probes[2].t_max)
       /\ trace.hit = (IF trace.probes[2].hit.some THEN trace.probes[2].hit
                       ELSE trace.probes[1].hit)

C10_Closest(self, r, t_min, t_max, trace) ==
  trace.hit.some =>
    /\ ChildHit(self.left, r, t_min, t_max).some =>
         FLe(trace.hit.v.t, ChildHit(self.left, r, t_min, t_max).v.t)
    /\ ChildHit(self.right, r, t_min, t_max).some =>
         FLe(trace.hit.v.t, ChildHit(self.right, r, t_min, t_max).v.t)

\* C10: BVH::hit returns None without probing a child when the ray misses
\* the node's box over [t_min, t_max]; otherwise it probes the left child
\* over [t_min, t_max], the right child over [t_min, t'] with t' the left
\* hit's t if there is one and t_max otherwise, and returns the right hit if
\* there is one, else the left hit; a returned hit's t is no greater than the
\* t either child reports over [t_min, t_max].
C10_BVHProbes ==
  pc = "BVH::hit" =>
    /\ C10_Probes(args.obj, args.r, args.t_min, args.t_max, ret)
    /\ C10_Closest(args.obj, args.r, args.t_min, args.t_max, ret)

\* C10: both children are hit over the whole interval, the left one farther
\* than the right one, and the right hit is returned.
C10_Witness ==
  /\ pc = "BVH::hit"
  /\ Len(ret.probes) = 2
  /\ ret.probes[1].hit.some
  /\ ret.probes[2].hit.some
  /\ FLt(ret.probes[2].hit.v.t, ret.probes[1].hit.v.t)
  /\ ret.hit = ret.probes[2].hit

(***************************************************************************)
(* Claims about the boxes.                                                 *)
(***************************************************************************)
Smaller(x, y) == IF FLt(y, x) THEN y ELSE x

Larger(x, y) == IF FLt(x, y) THEN y ELSE x

ComponentwiseUnion(a, b) ==
  [min |-> [i \in 1..3 |-> Smaller(a.min[i], b.min[i])],
   max |-> [i \in 1..3 |-> Larger(a.max[i], b.max[i])]]

\* the lists that hold the objects of a list in another order
Reorderings(objects) ==
  { [i \in 1..Len(objects) |-> objects[f[i]]] :
      f \in { g \in [1..Len(objects) -> 1..Len(objects)] :
                \A i, j \in 1..Len(objects) : i # j => g[i] # g[j] } }

\* C5: A + B is the component-wise minimum of the min corners and maximum of
\* the max corners; A + B = B + A and (A + B) + C = A + (B + C) on every
\* component; the box World::bounds folds from its objects is the same for
\* every order of the objects.
C5_UnionAlgebra ==
  /\ pc = "AABB::add" =>
       /\ ret.ab = ComponentwiseUnion(args.a, args.b)
       /\ ret.ab = ret.ba
       /\ ret.ab_c = ret.a_bc
  /\ pc = "World::bounds" =>
       \A objects \in Reorderings(args.objects) :
         WorldBounds(World(objects), args.time) = ret

\* C5: a list of three objects, one of them without bounds and one moving,
\* whose box is the box of none of them alone.
C5_Witness ==
  /\ pc = "World::bounds"
  /\ Len(args.objects) = 3
  /\ ret.some
  /\ \E i \in 1..3 : ~Bounds(args.objects[i], args.time).some
  /\ \E i \in 1..3 : args.objects[i].kind = "MovingSphere"
  /\ \A i \in 1..3 : Bounds(args.objects[i], args.time) # ret

Inside(inner, outer) ==
  \A i \in 1..3 : FLe(outer.min[i], inner.min[i]) /\ FLe(inner.max[i], outer.max[i])

C8_Covers ==
  /\ ret.bounds.some
  /\ Inside(OctantBox(ret.center, args.obj.radius), ret.bounds.v)

\* C8 as stated: for a moving sphere with radius >= 0 and time.0 < time.1,
\* a query interval (a, b) with a <= b and an instant t of [a, b], the cube
\* of half-width radius around center(t) lies inside bounds((a, b)) on every
\* axis; center(time.0) = center.0 and center(time.1) = center.1.
C8_AsStated ==
  pc = "MovingSphere::bounds" =>
    /\ C8_Covers
    /\ ret.center0 = args.obj.center[1]
    /\ ret.center1 = args.obj.center[2]

\* C8: for a moving sphere with radius >= 0 and time.0 < time.1, a query
\* interval (a, b) with a <= b and an instant t of [a, b], the cube of
\* half-width radius around center(t) lies inside bounds((a, b)) on every
\* axis; center(time.0) = center.0, and center(time.1) is
\* center.0 + (center.1 - center.0) as the arithmetic rounds it.
C8_SweptVolumeCovered ==
  pc = "MovingSphere::bounds" =>
    /\ C8_Covers
    /\ ret.center0 = args.obj.center[1]
    /\ ret.center1 = VAdd(args.obj.center[1], VSub(args.obj.center[2], args.obj.center[1]))

\* C8: a sphere that moves on every axis, at an instant strictly inside the
\* query interval, whose cube touches no face of the box; the center at
\* time.1 is not center.1.
C8_Witness ==
  /\ pc = "MovingSphere::bounds"
  /\ FLt(args.time[1], args.t)
  /\ FLt(args.t, args.time[2])
  /\ FLt(Zero, args.obj.radius)
  /\ \A i \in 1..3 :
       /\ FLt(ret.bounds.v.min[i], OctantBox(ret.center, args.obj.radius).min[i])
       /\ FLt(OctantBox(ret.center, args.obj.radius).max[i], ret.bounds.v.max[i])
  /\ ret.center1 # args.obj.center[2]

(***************************************************************************)
(* Claims about Material::scatter.                                         *)
(***************************************************************************)
C9_Perturbed(self, rnd, r, hit) ==
  VAdd(reflect(unit_vector(r.direction), hit.normal), VScale(rnd.sphere, self.fuzz))

\* C9: Material::scatter returns None only for Metal, and for Metal exactly
\* when the dot product of the perturbed reflected direction with the normal
\* is <= 0; Lambertian always scatters with its albedo as the attenuation
\* and Dialectric always scatters with white; a scattered ray starts at the
\* hit point with the time of the incident ray.
C9_Scatter ==
  pc = "Material::scatter" =>
    /\ ~ret.some => args.self.kind = "Metal"
    /\ args.self.kind = "Metal" =>
         (~ret.some <=>
            FLe(dot_product(C9_Perturbed(args.self, args.rnd, args.r, args.hit),
                            args.hit.normal), Zero))
    /\ args.self.kind = "Metal" /\ ret.some => ret.v.attenuation = args.self.albedo
    /\ args.self.kind = "Lambertian" =>
         ret.some /\ ret.v.attenuation = args.self.albedo
    /\ args.self.kind = "Dialectric" => ret.some /\ ret.v.attenuation = WHITE
    /\ ret.some =>
         ret.v.scattered.origin = args.hit.p /\ ret.v.scattered.time = args.r.time

\* C9: a mirror absorbs a grazing ray of time 1/2: the reflected direction is
\* at right angles to the normal.
C9_Witness ==
  /\ pc = "Material::scatter"
  /\ args.self.kind = "Metal"
  /\ args.r.time = Q(1, 2)
  /\ ~ret.some
  /\ dot_product(C9_Perturbed(args.self, args.rnd, args.r, args.hit), args.hit.normal)
       = Zero

(***************************************************************************)
(* Claims about Camera::get_ray.                                           *)
(***************************************************************************)
\* C6: Camera::get_ray never fails for a camera with time0 <= time1: it
\* returns a ray whose time lies in [time0, time1], and the ray of that
\* instant when time0 = time1.
C6_GetRayNeverFails ==
  (pc \in {"Camera::get_ray", "panicked"} /\ FLe(args.self.time[1], args.self.time[2])) =>
    /\ ~ret.panic
    /\ FLe(args.self.time[1], ret.v.time)
    /\ FLe(ret.v.time, args.self.time[2])
    /\ args.self.time[1] = args.self.time[2] => ret.v.time = args.self.time[1]

(***************************************************************************)
(* Claims about AABB::hit.                                                 *)
(***************************************************************************)
RECURSIVE C11_OtherAxes(_, _, _, _, _, _)

\* the slab test with the block of axis `skip` left out
C11_OtherAxes(self, r, skip, axis, t_min, t_max) ==
  IF axis > 3 THEN TRUE
  ELSE IF axis = skip THEN C11_OtherAxes(self, r, skip, axis + 1, t_min, t_max)
  ELSE LET iv == AABBAxis(self.min[axis], self.max[axis], r.origin[axis],
                          FRecip(r.direction[axis]), t_min, t_max)
       IN  ~AABBEmpty(iv) /\ C11_OtherAxes(self, r, skip, axis + 1, iv.t_min, iv.t_max)

C11_Outside(self, r, axis) ==
  FLt(r.origin[axis], self.min[axis]) \/ FGt(r.origin[axis], self.max[axis])

C11_Within(self, r, axis) ==
  FLe(self.min[axis], r.origin[axis]) /\ FLe(r.origin[axis], self.max[axis])

\* C11: AABB::hit always answers true or false; for a ray whose direction is
\* 0 on an axis it answers false when the origin's coordinate on that axis is
\* strictly outside [min, max], and when the coordinate is within [min, max],
\* faces included, it answers what the slab test over the other two axes
\* answers.
C11_AxisAlignedRays ==
  pc = "AABB::hit" =>
    /\ ret \in BOOLEAN
    /\ \A axis \in 1..3 :
         args.r.direction[axis] = Zero =>
           /\ C11_Outside(args.self, args.r, axis) => ~ret
           /\ C11_Within(args.self, args.r, axis) =>
                (ret <=> C11_OtherAxes(args.self, args.r, axis, 1, args.t_min, args.t_max))

\* a ray along x that starts on the face y = min of the box and passes
\* through it
C11_Witness ==
  /\ pc = "AABB::hit"
  /\ args.r.direction[2] = Zero
  /\ args.r.direction[1] # Zero
  /\ args.r.origin[2] = args.self.min[2]
  /\ FLt(args.r.origin[1], args.self.min[1])
  /\ ret

\* C12: when Sphere::hit on a sphere of radius > 0 returns a hit over
\* [t_min, t_max], AABB::hit on the box of that sphere's bounds() answers true
\* over the same [t_min, t_max].
C12_PruningSound ==
  (pc = "Sphere::hit" /\ FLt(Zero, args.obj.radius) /\ ret.some) =>
    AABBHit(SphereBounds(args.obj, <<Zero, Zero>>).v, args.r, args.t_min, args.t_max)

(***************************************************************************)
(* Claims about World::hit.                                                *)
(***************************************************************************)
\* what object i reports over the whole interval
C13_Alone(i) == Hit(args.obj.objects[i], args.r, args.t_min, args.t_max)

C13_Hitting == { i \in 1..Len(args.obj.objects) : C13_Alone(i).some }

\* the objects whose hit no other object's hit is in front of
C13_Nearest == { i \in C13_Hitting : \A j \in C13_Hitting : ~FLt(C13_Alone(j).v.t, C13_Alone(i).v.t) }

C13_Last(S) == CHOOSE i \in S : \A j \in S : j <= i

RECURSIVE C13_BestBefore(_)

\* the smallest t of the hits found before object i, t_max when there is none
C13_BestBefore(i) ==
  IF i = 1 THEN args.t_max
  ELSE IF ret.probes[i - 1].hit.some
            /\ ~FLt(C13_BestBefore(i - 1), ret.probes[i - 1].hit.v.t)
       THEN ret.probes[i - 1].hit.v.t
       ELSE C13_BestBefore(i - 1)

\* C13: World::hit returns None exactly when no object reports a hit in
\* [t_min, t_max]; otherwise it returns the hit of the last object in list
\* order among those whose t is the minimum of all objects' hits in
\* [t_min, t_max]; every object is probed once, in order, over t_min and the
\* best t found before it.
C13_ClosestOfScan ==
  pc = "World::hit" =>
    /\ ret.hit = WorldHit(args.obj, args.r, args.t_min, args.t_max)
    /\ ~ret.hit.some <=> C13_Hitting = {}
    /\ ret.hit.some =>
         /\ C13_Nearest # {}
         /\ ret.hit = C13_Alone(C13_Last(C13_Nearest))
         /\ \A j \in C13_Hitting : ~FLt(C13_Alone(j).v.t, ret.hit.v.t)
    /\ Len(ret.probes) = Len(args.obj.objects)
    /\ \A i \in 1..Len(ret.probes) :
         /\ ret.probes[i].t_min = args.t_min
         /\ ret.probes[i].t_max = C13_BestBefore(i)
         /\ ret.probes[i].hit = Hit(args.obj.objects[i], args.r, args.t_min, C13_BestBefore(i))

\* two objects hit at the same smallest t, a third was found first and is
\* farther, and the last of the two nearest is returned
C13_Witness ==
  /\ pc = "World::hit"
  /\ Len(args.obj.objects) = 3
  /\ ret.hit.some
  /\ Cardinality(C13_Nearest) = 2
  /\ Cardinality(C13_Hitting) = 3
  /\ ret.hit = C13_Alone(3)
  /\ FLt(ret.hit.v.t, ret.probes[1].hit.v.t)
  /\ ret.probes[1].hit.some

====
